---- MODULE Spec2Model ----
(***************************************************************************)
(* Model of src/1.py: edmonds_karp (maximum flow by breadth-first          *)
(* augmenting paths), build_logistics_graph, decompose_terminal_flows and  *)
(* the part of main that drives them.                                      *)
(*                                                                         *)
(* Python dicts keep insertion order and the searches iterate in that      *)
(* order, so a dict is modelled as a sequence of <<key, value>> pairs.     *)
(***************************************************************************)
EXTENDS Integers, Sequences, FiniteSets, TLC

VARIABLES graph, source, sink, caller, pc, err,
          residual, flow, max_flow,
          todo, terminal, sub_flow, result,
          terminal_to_shop_flow, shop_totals

vars == <<graph, source, sink, caller, pc, err, residual, flow, max_flow,
          todo, terminal, sub_flow, result, terminal_to_shop_flow, shop_totals>>

(* ---------------------------- bounds ----------------------------------- *)
\* largest capacity / flow value drawn for the enumerated inputs
MaxCap == 2
\* largest number of edges of an enumerated free-form graph
MaxEdges == 3
\* largest number of entries of an enumerated free-form flow map
MaxFlowEdges == 3
\* largest node count for which the minimum cut is enumerated
MaxCutNodes == 8

(* ------------------------- program constants --------------------------- *)
INF == 1000000000
\* float('inf'): larger than every integer the model handles
FloatInf == 2147483647
None == "None"

(* ------------------------------ dicts ---------------------------------- *)
EmptyDict == <<>>

DictKeys(d) == {d[i][1] : i \in DOMAIN d}

DictHas(d, k) == \E i \in DOMAIN d : d[i][1] = k

DictGet(d, k) == d[CHOOSE i \in DOMAIN d : d[i][1] = k][2]

DictPut(d, k, v) ==
    IF DictHas(d, k)
    THEN [d EXCEPT ![CHOOSE i \in DOMAIN d : d[i][1] = k] = <<k, v>>]
    ELSE Append(d, <<k, v>>)

\* d[k] of a defaultdict, without the insertion
DictGetOr(d, k, default) == IF DictHas(d, k) THEN DictGet(d, k) ELSE default

\* d[u][v] = c on a defaultdict(dict)
DictPut2(d, u, v, c) == DictPut(d, u, DictPut(DictGetOr(d, u, EmptyDict), v, c))

\* d[u][v] read through two defaultdict levels, without the insertion
DictGet2(d, u, v) == DictGetOr(DictGetOr(d, u, EmptyDict), v, 0)

\* e, with x evaluated first: the interpreter evaluates an operator argument only
\* when it is used, and a loop would otherwise pile up its suspended updates
Strict(x, e) == IF x = x THEN e ELSE e

\* for x in xs[lo..hi]: acc = Body(acc, x).  The range is run in two halves, the
\* first to its end before the second, so the evaluation nests to a depth
\* logarithmic in the number of iterations.
RECURSIVE Loop(_, _, _, _, _)
Loop(Body(_, _), acc, xs, lo, hi) ==
    IF lo > hi THEN acc
    ELSE IF lo = hi THEN Body(acc, xs[lo])
    ELSE LET mid == (lo + hi) \div 2
             half == Loop(Body, acc, xs, lo, mid)
         IN  Strict(half, Loop(Body, half, xs, mid + 1, hi))

ForEach(Body(_, _), acc, xs) == Loop(Body, acc, xs, 1, Len(xs))

\* the <<u, v, d[u][v]>> of a nested dict, in iteration order
EdgeList(d) ==
    ForEach(LAMBDA acc, kv :
                acc \o [i \in DOMAIN kv[2] |-> <<kv[1], kv[2][i][1], kv[2][i][2]>>],
            <<>>, d)

Min(a, b) == IF a <= b THEN a ELSE b

\* float addition as far as the code uses it: inf absorbs
Add(a, b) == IF a = FloatInf \/ b = FloatInf THEN FloatInf ELSE a + b

SumSeq(s) == ForEach(Add, 0, s)

(* -------------------------- the networks ------------------------------- *)
S == "S"
T == "T"
terminals == <<"Terminal 1", "Terminal 2">>
warehouses == <<"Warehouse 1", "Warehouse 2", "Warehouse 3", "Warehouse 4">>
shops == <<"Shop 1", "Shop 2", "Shop 3", "Shop 4", "Shop 5", "Shop 6", "Shop 7",
           "Shop 8", "Shop 9", "Shop 10", "Shop 11", "Shop 12", "Shop 13", "Shop 14">>

SeqSet(s) == {s[i] : i \in DOMAIN s}

\* graph[u][v] = c for a list of <<u, v, c>>, in order
BuildGraph(edges) ==
    ForEach(LAMBDA g, e : DictPut2(g, e[1], e[2], e[3]), EmptyDict, edges)

ShopEdges(shopList) == [i \in DOMAIN shopList |-> <<shopList[i], T, INF>>]

build_logistics_graph ==
    BuildGraph(
       << <<S, "Terminal 1", 60>>, <<S, "Terminal 2", 55>>,
          <<"Terminal 1", "Warehouse 1", 25>>, <<"Terminal 1", "Warehouse 2", 20>>,
          <<"Terminal 1", "Warehouse 3", 15>>,
          <<"Terminal 2", "Warehouse 3", 15>>, <<"Terminal 2", "Warehouse 4", 30>>,
          <<"Terminal 2", "Warehouse 2", 10>>,
          <<"Warehouse 1", "Shop 1", 15>>, <<"Warehouse 1", "Shop 2", 10>>,
          <<"Warehouse 1", "Shop 3", 20>>,
          <<"Warehouse 2", "Shop 4", 15>>, <<"Warehouse 2", "Shop 5", 10>>,
          <<"Warehouse 2", "Shop 6", 25>>,
          <<"Warehouse 3", "Shop 7", 20>>, <<"Warehouse 3", "Shop 8", 15>>,
          <<"Warehouse 3", "Shop 9", 10>>,
          <<"Warehouse 4", "Shop 10", 20>>, <<"Warehouse 4", "Shop 11", 10>>,
          <<"Warehouse 4", "Shop 12", 15>>, <<"Warehouse 4", "Shop 13", 5>>,
          <<"Warehouse 4", "Shop 14", 10>> >> \o ShopEdges(shops))

(* --------------------------- edmonds_karp ------------------------------ *)
\* if v not in residual: residual[v] = {}; if u not in residual[v]: residual[v][u] = 0
AddReverse(res, u, v) ==
    LET r1 == IF DictHas(res, v) THEN res ELSE DictPut(res, v, EmptyDict)
    IN  IF DictHas(DictGet(r1, v), u) THEN r1
        ELSE DictPut(r1, v, DictPut(DictGet(r1, v), u, 0))

\* residual = {u: dict(graph[u]) for u in graph}, then the reverse entries
InitResidual(g) ==
    ForEach(LAMBDA res, e : AddReverse(res, e[1], e[2]), g, EdgeList(g))

\* BfsScan following an edge of residual capacity 0 as well
RECURSIVE BfsScan_ZeroEdges(_, _, _, _, _, _)
BfsScan_ZeroEdges(parent, queue, items, i, current, snk) ==
    IF i > Len(items) THEN [parent |-> parent, queue |-> queue]
    ELSE LET neighbor == items[i][1]
             capacity == items[i][2]
         IN  IF capacity >= 0 /\ parent[neighbor] = None
             THEN LET p2 == [parent EXCEPT ![neighbor] = current]
                      q2 == Append(queue, neighbor)
                  IN  IF neighbor = snk
                      THEN [parent |-> p2, queue |-> q2]
                      ELSE Strict(<<p2, q2>>,
                                  BfsScan_ZeroEdges(p2, q2, items, i + 1, current, snk))
             ELSE BfsScan_ZeroEdges(parent, queue, items, i + 1, current, snk)

\* the for loop over residual[current].items(), from item i on
RECURSIVE BfsScan(_, _, _, _, _, _)
BfsScan(parent, queue, items, i, current, snk) ==
    IF i > Len(items) THEN [parent |-> parent, queue |-> queue]
    ELSE LET neighbor == items[i][1]
             capacity == items[i][2]
         IN  IF capacity > 0 /\ parent[neighbor] = None
             THEN LET p2 == [parent EXCEPT ![neighbor] = current]
                      q2 == Append(queue, neighbor)
                  IN  IF neighbor = snk
                      THEN [parent |-> p2, queue |-> q2]
                      ELSE Strict(<<p2, q2>>, BfsScan(p2, q2, items, i + 1, current, snk))
             ELSE BfsScan(parent, queue, items, i + 1, current, snk)

\* while queue and parent[sink] is None: the loop and what it leaves behind;
\* parent[sink] and residual[current] raise KeyError on a key that is not there
RECURSIVE BfsLoop(_, _, _, _)
BfsLoop(parent, queue, res, snk) ==
    IF queue = <<>> THEN [raised |-> FALSE, parent |-> parent]
    ELSE IF snk \notin DOMAIN parent THEN [raised |-> TRUE, parent |-> parent]
    ELSE IF parent[snk] # None THEN [raised |-> FALSE, parent |-> parent]
    ELSE LET current == Head(queue)
         IN  IF ~DictHas(res, current) THEN [raised |-> TRUE, parent |-> parent]
             ELSE LET r == BfsScan(parent, Tail(queue), DictGet(res, current), 1,
                                   current, snk)
                  IN  Strict(r, BfsLoop(r.parent, r.queue, res, snk))

\* Bfs with lookups that default instead of raising, as on a defaultdict
Bfs_Defaulting(res, src, snk) ==
    BfsLoop([n \in DictKeys(res) \cup {src, snk} |-> IF n = src THEN src ELSE None],
            <<src>>, IF DictHas(res, src) THEN res ELSE DictPut(res, src, EmptyDict), snk)

\* parent = {node: None for node in residual}; parent[source] = source; the search
Bfs(res, src, snk) ==
    BfsLoop([n \in DictKeys(res) \cup {src} |-> IF n = src THEN src ELSE None],
            <<src>>, res, snk)

\* if parent[sink] is None: break
PathFound(b, snk) == ~b.raised /\ b.parent[snk] # None

\* the nodes of the found path from sink back to source, sink first
RECURSIVE PathBack(_, _, _)
PathBack(parent, node, src) ==
    IF node = src THEN <<>>
    ELSE <<(<<parent[node], node>>)>> \o PathBack(parent, parent[node], src)

\* PathFlow looking at the edge into the sink only
PathFlow_LastEdgeOnly(res, steps) ==
    IF steps = <<>> THEN FloatInf
    ELSE Min(FloatInf, DictGet(DictGet(res, steps[1][1]), steps[1][2]))

\* path_flow = min(path_flow, residual[prev][node]) along the path
PathFlow(res, steps) ==
    ForEach(LAMBDA acc, st : Min(acc, DictGet(DictGet(res, st[1]), st[2])),
            FloatInf, steps)

\* flow[a][b] += delta on defaultdict(lambda: defaultdict(int))
FlowAdd(f, a, b, delta) ==
    LET inner == DictGetOr(f, a, EmptyDict)
    IN  DictPut(f, a, DictPut(inner, b, DictGetOr(inner, b, 0) + delta))

ResAdd(res, a, b, delta) ==
    DictPut(res, a, DictPut(DictGet(res, a), b, DictGet(DictGet(res, a), b) + delta))

\* UpdateFlow stopping one edge short of the source
UpdateFlow_StopsEarly(f, steps, path_flow) ==
    Loop(LAMBDA acc, st : FlowAdd(FlowAdd(acc, st[1], st[2], path_flow),
                                  st[2], st[1], 0 - path_flow),
         f, steps, 1, Len(steps) - 1)

\* UpdateFlow without the update of the reverse flow
UpdateFlow_NoReverse(f, steps, path_flow) ==
    ForEach(LAMBDA acc, st : FlowAdd(acc, st[1], st[2], path_flow), f, steps)

\* flow[prev][node] += path_flow; flow[node][prev] -= path_flow along the path
UpdateFlow(f, steps, path_flow) ==
    ForEach(LAMBDA acc, st : FlowAdd(FlowAdd(acc, st[1], st[2], path_flow),
                                     st[2], st[1], 0 - path_flow),
            f, steps)

\* UpdateResidual without the update of the reverse residual capacity
UpdateResidual_NoReverse(res, steps, path_flow) ==
    ForEach(LAMBDA acc, st : ResAdd(acc, st[1], st[2], 0 - path_flow), res, steps)

\* residual[prev][node] -= path_flow; residual[node][prev] += path_flow
UpdateResidual(res, steps, path_flow) ==
    ForEach(LAMBDA acc, st : ResAdd(ResAdd(acc, st[1], st[2], 0 - path_flow),
                                    st[2], st[1], path_flow),
            res, steps)

(* --------------------- decompose_terminal_flows ------------------------ *)
valid_nodes == SeqSet(terminals) \cup SeqSet(warehouses) \cup SeqSet(shops)

\* InitSubFlow with the warehouses left out of valid_nodes
InitSubFlow_NoWarehouses(f) ==
    ForEach(LAMBDA sf, e : IF /\ e[1] \in SeqSet(terminals) \cup SeqSet(shops)
                              /\ e[2] \in SeqSet(terminals) \cup SeqSet(shops)
                              /\ e[3] > 0
                           THEN DictPut2(sf, e[1], e[2], e[3]) ELSE sf,
            EmptyDict, EdgeList(f))

\* sub_flow[u][v] = f for the positive entries between valid nodes
InitSubFlow(f) ==
    ForEach(LAMBDA sf, e : IF e[1] \in valid_nodes /\ e[2] \in valid_nodes /\ e[3] > 0
                           THEN DictPut2(sf, e[1], e[2], e[3]) ELSE sf,
            EmptyDict, EdgeList(f))

NoPath(visited) == [found |-> FALSE, path |-> <<>>, bottleneck |-> 0, visited |-> visited]

RECURSIVE dfs(_, _, _)
RECURSIVE DfsScan(_, _, _, _, _)
dfs(node, visited, sf) ==
    IF node \in SeqSet(shops)
    THEN [found |-> TRUE, path |-> <<node>>, bottleneck |-> FloatInf, visited |-> visited]
    ELSE IF DictHas(sf, node)
         THEN DfsScan(node, DictGet(sf, node), 1, visited \cup {node}, sf)
         ELSE NoPath(visited \cup {node})

DfsScan(node, items, i, visited, sf) ==
    IF i > Len(items) THEN NoPath(visited)
    ELSE LET neighbor == items[i][1]
             capacity == items[i][2]
         IN  IF capacity > 0 /\ neighbor \notin visited
             THEN LET r == dfs(neighbor, visited, sf)
                  IN  IF r.found
                      THEN [found |-> TRUE, path |-> <<node>> \o r.path,
                            bottleneck |-> Min(capacity, r.bottleneck),
                            visited |-> r.visited]
                      ELSE DfsScan(node, items, i + 1, r.visited, sf)
             ELSE DfsScan(node, items, i + 1, visited, sf)

\* SubtractPath leaving the first edge of the path as it is
SubtractPath_SkipsFirst(sf, path, bottleneck) ==
    ForEach(LAMBDA acc, i : DictPut2(acc, path[i], path[i + 1],
                                     DictGet(DictGet(acc, path[i]), path[i + 1]) - bottleneck),
            sf, [i \in 1..(Len(path) - 2) |-> i + 1])

\* sub_flow[u][v] -= bottleneck along the path
SubtractPath(sf, path, bottleneck) ==
    ForEach(LAMBDA acc, i : DictPut2(acc, path[i], path[i + 1],
                                     DictGet(DictGet(acc, path[i]), path[i + 1]) - bottleneck),
            sf, [i \in 1..(Len(path) - 1) |-> i])

\* result[shop] += bottleneck on defaultdict(int)
ResultAdd(res, shop, bottleneck) ==
    DictPut(res, shop, Add(DictGetOr(res, shop, 0), bottleneck))

(* -------------------------------- main --------------------------------- *)
\* shop_totals[shop] += amount over every terminal's shop_flow
ShopTotals(t2s) ==
    ForEach(LAMBDA totals, kv :
                ForEach(LAMBDA t, sa : ResultAdd(t, sa[1], sa[2]), totals, kv[2]),
            EmptyDict, t2s)

\* sum(terminal_to_shop_flow[term].values())
DictSum(d) == SumSeq([i \in DOMAIN d |-> d[i][2]])

(* ------------------------- enumerated inputs --------------------------- *)
\* a set of indices as an increasing sequence
RECURSIVE SortedSeq(_)
SortedSeq(E) ==
    IF E = {} THEN <<>>
    ELSE LET m == CHOOSE x \in E : \A y \in E : x <= y
         IN  <<m>> \o SortedSeq(E \ {m})

\* a reduced logistics network: two terminals, two warehouses, two shops
SkeletonPairs ==
    << <<S, "Terminal 1">>, <<S, "Terminal 2">>,
       <<"Terminal 1", "Warehouse 1">>, <<"Terminal 1", "Warehouse 2">>,
       <<"Terminal 2", "Warehouse 1">>,
       <<"Warehouse 1", "Shop 1">>, <<"Warehouse 2", "Shop 2">> >>

SkeletonGraph(c) ==
    BuildGraph([i \in DOMAIN SkeletonPairs |->
                   <<SkeletonPairs[i][1], SkeletonPairs[i][2], c[i]>>]
               \o ShopEdges(<<"Shop 1", "Shop 2">>))

\* free-form graphs: forward, backward and opposite edges, edges that skip a
\* layer, an edge into the source, an edge out of the sink, a self-loop
FreePairs ==
    << <<S, "Terminal 1">>, <<S, "Shop 1">>, <<S, T>>,
       <<"Terminal 1", S>>, <<"Terminal 1", "Terminal 1">>,
       <<"Terminal 1", "Shop 1">>, <<"Terminal 1", T>>,
       <<"Shop 1", "Terminal 1">>, <<"Shop 1", T>>,
       <<T, "Terminal 1">> >>

EdgesOf(pairs, E, c) ==
    LET idx == SortedSeq(E)
    IN  [i \in DOMAIN idx |-> <<pairs[idx[i]][1], pairs[idx[i]][2], c[idx[i]]>>]

IndexSets(n, k) == {E \in SUBSET (1..n) : Cardinality(E) <= k}

SourceSinkChoices == {<<S, T>>, <<S, S>>}

SkeletonEntries == {"Warehouse 1", "Shop 1"}

\* free-form flow maps handed to decompose_terminal_flows directly
FlowNodes == <<"Terminal 1", "Warehouse 1", "Warehouse 2", "Shop 1">>

FlowPairs ==
    << <<"Terminal 1", "Warehouse 1">>, <<"Terminal 1", "Warehouse 2">>,
       <<"Warehouse 1", "Warehouse 2">>, <<"Warehouse 2", "Warehouse 1">>,
       <<"Warehouse 1", "Shop 1">>, <<"Warehouse 2", "Shop 1">>,
       <<"Shop 1", "Warehouse 1">>, <<S, "Terminal 1">> >>

(* ------------------------------- Init ---------------------------------- *)
InitLocals ==
    /\ err = ""
    /\ residual = EmptyDict
    /\ max_flow = 0
    /\ terminal = None
    /\ sub_flow = EmptyDict
    /\ result = EmptyDict
    /\ terminal_to_shop_flow = EmptyDict
    /\ shop_totals = EmptyDict

\* main: edmonds_karp, then decompose_terminal_flows for every terminal
InitMain(g, src, snk) ==
    /\ graph = g
    /\ source = src
    /\ sink = snk
    /\ caller = "main"
    /\ pc = "ek_start"
    /\ flow = EmptyDict
    /\ todo = terminals
    /\ InitLocals

\* edmonds_karp on (g, S, T), then decompose_terminal_flows for one entry node
InitEntry(g, entry) ==
    /\ graph = g
    /\ source = S
    /\ sink = T
    /\ caller = "ek_entry"
    /\ pc = "ek_start"
    /\ flow = EmptyDict
    /\ todo = <<entry>>
    /\ InitLocals

\* decompose_terminal_flows on a given flow map, for one entry node
InitFlow(f, entry) ==
    /\ graph = EmptyDict
    /\ source = S
    /\ sink = T
    /\ caller = "flow_entry"
    /\ pc = "main_decompose"
    /\ flow = f
    /\ todo = <<entry>>
    /\ InitLocals

InitReference == InitMain(build_logistics_graph, S, T)

InitSkeleton ==
    \E c \in [DOMAIN SkeletonPairs -> 1..MaxCap] :
        \/ InitMain(SkeletonGraph(c), S, T)
        \/ \E entry \in SkeletonEntries : InitEntry(SkeletonGraph(c), entry)

InitFree ==
    \E E \in IndexSets(Len(FreePairs), MaxEdges) :
      \E c \in [E -> 0..MaxCap] :
        \E ss \in SourceSinkChoices :
          InitMain(BuildGraph(EdgesOf(FreePairs, E, c)), ss[1], ss[2])

InitDirect ==
    \E E \in IndexSets(Len(FlowPairs), MaxFlowEdges) :
      \E c \in [E -> 0..MaxCap] :
        \E entry \in SeqSet(FlowNodes) :
          InitFlow(BuildGraph(EdgesOf(FlowPairs, E, c)), entry)

Init == InitReference \/ InitSkeleton \/ InitFree \/ InitDirect

(* ------------------------------ actions -------------------------------- *)
\* edmonds_karp, lines 20-34
Start ==
    /\ pc = "ek_start"
    /\ flow' = EmptyDict
    /\ residual' = InitResidual(graph)
    /\ max_flow' = 0
    /\ pc' = "ek_loop"
    /\ UNCHANGED <<graph, source, sink, caller, err, todo, terminal, sub_flow,
                   result, terminal_to_shop_flow, shop_totals>>

\* the breadth-first search looks up a node that residual does not hold
RaiseKeyError ==
    /\ pc = "ek_loop"
    /\ Bfs(residual, source, sink).raised
    /\ err' = "KeyError"
    /\ pc' = "ek_raised"
    /\ UNCHANGED <<graph, source, sink, caller, residual, flow, max_flow, todo,
                   terminal, sub_flow, result, terminal_to_shop_flow, shop_totals>>

\* one iteration of the while True loop that finds a path, lines 37-73
Augment ==
    /\ pc = "ek_loop"
    /\ LET b == Bfs(residual, source, sink)
       IN  /\ PathFound(b, sink)
           /\ LET steps == PathBack(b.parent, sink, source)
                  path_flow == PathFlow(residual, steps)
              IN  /\ flow' = UpdateFlow(flow, steps, path_flow)
                  /\ residual' = UpdateResidual(residual, steps, path_flow)
                  /\ max_flow' = Add(max_flow, path_flow)
    /\ UNCHANGED <<graph, source, sink, caller, pc, err, todo, terminal, sub_flow,
                   result, terminal_to_shop_flow, shop_totals>>

\* the iteration that finds no path: break and return (max_flow, flow)
Return ==
    /\ pc = "ek_loop"
    /\ LET b == Bfs(residual, source, sink)
       IN  ~b.raised /\ ~PathFound(b, sink)
    /\ pc' = "main_decompose"
    /\ UNCHANGED <<graph, source, sink, caller, err, residual, flow, max_flow, todo,
                   terminal, sub_flow, result, terminal_to_shop_flow, shop_totals>>

\* decompose_terminal_flows, lines 163-185
CallDecompose ==
    /\ pc = "main_decompose"
    /\ todo # <<>>
    /\ terminal' = Head(todo)
    /\ sub_flow' = InitSubFlow(flow)
    /\ result' = EmptyDict
    /\ pc' = "dec_loop"
    /\ UNCHANGED <<graph, source, sink, caller, err, residual, flow, max_flow,
                   todo, terminal_to_shop_flow, shop_totals>>

\* one iteration of the while True loop that finds a path, lines 188-198
ExtractPath ==
    /\ pc = "dec_loop"
    /\ LET r == dfs(terminal, {}, sub_flow)
       IN  /\ r.found /\ r.bottleneck # 0
           /\ result' = ResultAdd(result, r.path[Len(r.path)], r.bottleneck)
           /\ sub_flow' = SubtractPath(sub_flow, r.path, r.bottleneck)
    /\ UNCHANGED <<graph, source, sink, caller, pc, err, residual, flow, max_flow,
                   todo, terminal, terminal_to_shop_flow, shop_totals>>

\* the iteration that finds no path: break and return dict(result)
DecomposeReturn ==
    /\ pc = "dec_loop"
    /\ LET r == dfs(terminal, {}, sub_flow)
       IN  ~(r.found /\ r.bottleneck # 0)
    /\ terminal_to_shop_flow' = DictPut(terminal_to_shop_flow, terminal, result)
    /\ todo' = Tail(todo)
    /\ pc' = IF caller = "main" THEN "main_decompose" ELSE "done"
    /\ UNCHANGED <<graph, source, sink, caller, err, residual, flow, max_flow,
                   terminal, sub_flow, result, shop_totals>>

\* main, lines 246-249
ComputeShopTotals ==
    /\ pc = "main_decompose"
    /\ todo = <<>>
    /\ shop_totals' = ShopTotals(terminal_to_shop_flow)
    /\ pc' = "done"
    /\ UNCHANGED <<graph, source, sink, caller, err, residual, flow, max_flow,
                   todo, terminal, sub_flow, result, terminal_to_shop_flow>>

Next ==
    \/ Start
    \/ RaiseKeyError
    \/ Augment
    \/ Return
    \/ CallDecompose
    \/ ExtractPath
    \/ DecomposeReturn
    \/ ComputeShopTotals

Spec == Init /\ [][Next]_vars

EkReturned == caller # "flow_entry" /\ pc \in {"main_decompose", "dec_loop", "done"}

TypeOK == pc \in {"ek_start", "ek_loop", "ek_raised", "main_decompose", "dec_loop", "done"}

(* ----------------------- vocabulary of the claims ---------------------- *)
NodesOf(g) == DictKeys(g) \cup UNION {DictKeys(g[i][2]) : i \in DOMAIN g}

Capacity(u, v) == DictGet2(graph, u, v)

FlowOn(u, v) == DictGet2(flow, u, v)

Abs(x) == IF x < 0 THEN 0 - x ELSE x

\* summed capacity of the edges that leave the node set A
CutCapacity(g, A) ==
    ForEach(LAMBDA acc, e : acc + (IF e[1] \in A /\ e[2] \notin A THEN e[3] ELSE 0),
            0, EdgeList(g))

MinCut(g, src, snk) ==
    LET cuts == {CutCapacity(g, A \cup {src}) : A \in SUBSET (NodesOf(g) \ {src, snk})}
    IN  CHOOSE m \in cuts : \A x \in cuts : m <= x

\* sum of the positive entries flow(u, n) over all u, and flow(n, v) over all v
PosSum(entries, n, side) ==
    ForEach(LAMBDA acc, e : acc + (IF e[side] = n /\ e[3] > 0 THEN e[3] ELSE 0),
            0, entries)

PosIn(f, n) == PosSum(EdgeList(f), n, 2)

PosOut(f, n) == PosSum(EdgeList(f), n, 1)

AbsentInput == source \notin NodesOf(graph) \/ sink \notin NodesOf(graph)

\* the positive-flow edges between interior nodes, as a set of pairs
PositiveEdges(f) ==
    LET e == EdgeList(InitSubFlow(f)) IN {<<e[i][1], e[i][2]>> : i \in DOMAIN e}

RECURSIVE ReachableFrom(_, _)
ReachableFrom(E, X) ==
    LET Y == X \cup {e[2] : e \in {d \in E : d[1] \in X}}
    IN  IF Y = X THEN X ELSE ReachableFrom(E, Y)

\* some positive-flow edge between interior nodes lies on a cycle
HasFlowCycle(f) ==
    LET E == PositiveEdges(f)
    IN  \E e \in E : e[1] \in ReachableFrom(E, {e[2]})

\* the positive flow left in a flow map
PositiveTotal(f) ==
    ForEach(LAMBDA acc, e : acc + (IF e[3] > 0 THEN e[3] ELSE 0), 0, EdgeList(f))

\* positive flow from an interior node that is no shop to a node outside the interior
LeavesInterior(f) ==
    LET e == EdgeList(f)
    IN  \E i \in DOMAIN e : /\ e[i][3] > 0
                             /\ e[i][1] \in valid_nodes \ SeqSet(shops)
                             /\ e[i][2] \notin valid_nodes

(* ------------------------------- claims -------------------------------- *)
\* C1: when edmonds_karp returns for source # sink, both nodes of the graph, the
\* returned max_flow equals the minimum, over the node sets that hold source and not sink,
\* of the summed capacity of the edges leaving the set.
C1_MaxFlowIsMinCut ==
    (EkReturned /\ terminal = None /\ source # sink /\ Cardinality(NodesOf(graph)) <= MaxCutNodes)
        => max_flow = MinCut(graph, source, sink)

\* a run in which one unit pushed over Terminal 1 -> Warehouse 1 was taken back
C1_Witness ==
    /\ EkReturned /\ terminal = None /\ max_flow = 2
    /\ Cardinality(NodesOf(graph)) <= MaxCutNodes
    /\ DictHas(DictGetOr(flow, "Terminal 1", EmptyDict), "Warehouse 1")
    /\ FlowOn("Terminal 1", "Warehouse 1") = 0
    /\ FlowOn("Terminal 2", "Warehouse 1") = 1

\* C2: in edmonds_karp, after every augmentation and on return, every node other
\* than source and sink has equal positive inflow and positive outflow.
C2_FlowConservation ==
    caller # "flow_entry" =>
        \A n \in (NodesOf(flow) \cup NodesOf(graph)) \ {source, sink} :
            PosIn(flow, n) = PosOut(flow, n)

C2_Witness ==
    /\ caller # "flow_entry" /\ pc = "ek_loop"
    /\ PosIn(flow, "Warehouse 1") = 2 /\ PosOut(flow, "Warehouse 1") = 2
    /\ PosIn(flow, "Terminal 1") = 1

\* C3 as stated: on return, |flow(u,v)| <= capacity(u,v) for every edge (u,v) of
\* the input graph, opposite edges of different capacities included.
C3_AbsFlowWithinCapacity ==
    EkReturned =>
        \A u \in DictKeys(graph) : \A v \in DictKeys(DictGet(graph, u)) :
            Abs(FlowOn(u, v)) <= Capacity(u, v)

\* C3 amended: on return, for every edge (u,v) of the input graph the signed net
\* flow satisfies flow(u,v) <= capacity(u,v) and -flow(u,v) <= capacity(v,u),
\* the capacity of an absent edge being 0.
C3_NetFlowWithinCapacity ==
    EkReturned =>
        \A u \in DictKeys(graph) : \A v \in DictKeys(DictGet(graph, u)) :
            /\ FlowOn(u, v) <= Capacity(u, v)
            /\ 0 - FlowOn(u, v) <= Capacity(v, u)

\* an edge carried against by more than its own capacity
C3_Witness ==
    /\ EkReturned
    /\ \E u \in DictKeys(graph) : \E v \in DictKeys(DictGet(graph, u)) :
          /\ Capacity(u, v) < Capacity(v, u)
          /\ FlowOn(v, u) = Capacity(v, u)
          /\ FlowOn(v, u) > 0

\* C4: at every iteration of the augmenting loop, every residual entry (u,v) equals
\* capacity(u,v) - flow(u,v) and is >= 0, every edge has its reverse entry, and the
\* flow map is antisymmetric.
C4_ResidualInvariant ==
    (caller # "flow_entry" /\ pc # "ek_start") =>
        LET r == EdgeList(residual)
            f == EdgeList(flow)
        IN  /\ \A i \in DOMAIN r :
                  /\ r[i][3] = Capacity(r[i][1], r[i][2]) - FlowOn(r[i][1], r[i][2])
                  /\ r[i][3] >= 0
            /\ \A u \in DictKeys(graph) : \A v \in DictKeys(DictGet(graph, u)) :
                  DictHas(residual, v) /\ DictHas(DictGet(residual, v), u)
            /\ \A i \in DOMAIN f : FlowOn(f[i][2], f[i][1]) = 0 - f[i][3]

\* after an augmentation: a reverse entry that was created as 0 now holds flow
C4_Witness ==
    /\ caller # "flow_entry" /\ pc = "ek_loop" /\ max_flow > 0
    /\ \E u \in DictKeys(residual) : \E v \in DictKeys(DictGet(residual, u)) :
          Capacity(u, v) = 0 /\ DictGet(DictGet(residual, u), v) > 0

\* C5 as stated: with source or sink absent from the node set, edmonds_karp ends
\* with the error kind InvalidGraph and in no other way.
C5_FailsWithInvalidGraph ==
    (caller = "main" /\ AbsentInput /\ pc \notin {"ek_start", "ek_loop"})
        => (pc = "ek_raised" /\ err = "InvalidGraph")

\* C5 amended: with source # sink and source or sink absent from the node set,
\* edmonds_karp ends with a KeyError, raised by the first search before any
\* augmentation (flow empty, residual as built, max_flow 0), and never returns.
C5_FailsWithKeyError ==
    /\ []((caller = "main" /\ AbsentInput /\ source # sink) =>
            /\ pc \in {"ek_start", "ek_loop", "ek_raised"}
            /\ flow = EmptyDict /\ max_flow = 0
            /\ (pc # "ek_start" => residual = InitResidual(graph))
            /\ (pc = "ek_raised" => err = "KeyError"))
    /\ [][(caller = "main" /\ AbsentInput /\ source # sink /\ pc = "ek_loop")
            => (pc' = "ek_raised" /\ err' = "KeyError")]_vars

\* the sink is missing while the source has edges
C5_Witness ==
    /\ pc = "ek_raised" /\ err = "KeyError"
    /\ source \in NodesOf(graph) /\ sink \notin NodesOf(graph)

\* C6: for source # sink, both nodes of the graph, the augmenting loop ends: every
\* iteration either adds a bottleneck >= 1 to max_flow or finds no path and
\* returns, the search raises nothing, and max_flow never exceeds the summed
\* capacity of the edges leaving source, so only finitely many iterations augment.
C6_Terminates ==
    /\ []((caller # "flow_entry" /\ ~AbsentInput /\ source # sink /\ pc = "ek_loop") =>
            /\ max_flow <= CutCapacity(graph, {source})
            /\ ~Bfs(residual, source, sink).raised)
    /\ [][(caller # "flow_entry" /\ ~AbsentInput /\ source # sink /\ pc = "ek_loop") =>
            \/ pc' = "ek_loop" /\ max_flow' >= max_flow + 1
            \/ pc' = "main_decompose" /\ max_flow' = max_flow
                 /\ ~PathFound(Bfs(residual, source, sink), sink)]_vars

\* returned after at least three augmentations
C6_Witness ==
    /\ EkReturned /\ source # sink /\ max_flow >= 3
    /\ Len(DictGetOr(flow, source, EmptyDict)) >= 2

\* C7 as stated: for a flow map from edmonds_karp, the amounts returned for an
\* entry node sum to the positive flow leaving that node, unless flow sits on a
\* cycle of the positive-flow subgraph.
C7_SumIsOutflow ==
    (caller # "flow_entry" /\ ~HasFlowCycle(flow)) =>
        \A i \in DOMAIN terminal_to_shop_flow :
            DictSum(terminal_to_shop_flow[i][2]) = PosOut(flow, terminal_to_shop_flow[i][1])

\* C7 amended: the same, provided also that no interior node other than a shop
\* sends positive flow to a node outside the interior set (straight to T).
C7_SumIsOutflowInside ==
    (caller # "flow_entry" /\ ~HasFlowCycle(flow) /\ ~LeavesInterior(flow)) =>
        \A i \in DOMAIN terminal_to_shop_flow :
            DictSum(terminal_to_shop_flow[i][2]) = PosOut(flow, terminal_to_shop_flow[i][1])

\* an entry whose flow reached two shops over two warehouses
C7_Witness ==
    /\ caller # "flow_entry" /\ ~HasFlowCycle(flow) /\ ~LeavesInterior(flow)
    /\ \E i \in DOMAIN terminal_to_shop_flow :
          /\ Len(terminal_to_shop_flow[i][2]) = 2
          /\ DictSum(terminal_to_shop_flow[i][2]) = 2
          /\ PosOut(flow, terminal_to_shop_flow[i][1]) = 2

\* C8: on the network of build_logistics_graph, edmonds_karp(graph, S, T) returns
\* 115, the summed capacity of the edges leaving S, and for each terminal the
\* amounts of decompose_terminal_flows sum to the terminal's outflow.
C8_ReferenceNetwork ==
    (graph = build_logistics_graph /\ pc = "done") =>
        /\ max_flow = 115
        /\ CutCapacity(graph, {S}) = 115
        /\ \A i \in DOMAIN terminals :
              /\ DictHas(terminal_to_shop_flow, terminals[i])
              /\ DictSum(DictGet(terminal_to_shop_flow, terminals[i]))
                    = PosOut(flow, terminals[i])

C8_Witness ==
    /\ graph = build_logistics_graph /\ pc = "done"
    /\ DictSum(DictGet(terminal_to_shop_flow, "Terminal 1")) = 60
    /\ DictSum(DictGet(terminal_to_shop_flow, "Terminal 2")) = 55

\* C9: for every flow map and every interior entry node, decompose_terminal_flows
\* leaves its loop and returns finite amounts, whatever kind of node the entry is:
\* every iteration that stays in the loop takes flow off sub_flow (the positive
\* flow left in sub_flow is a natural number, so the loop ends), and no amount is
\* infinite.
C9_DecomposeTerminates ==
    /\ [](\A i \in DOMAIN result : result[i][2] < FloatInf)
    /\ [][(pc = "dec_loop" /\ pc' = "dec_loop") =>
            PositiveTotal(sub_flow') < PositiveTotal(sub_flow)]_vars

\* C10: when main is done, for every shop the amounts attributed to it over all
\* terminals sum to the flow on its edge to T.
C10_ShopTotalsMatchFlow ==
    (caller = "main" /\ pc = "done") =>
        \A i \in DOMAIN shops : DictGetOr(shop_totals, shops[i], 0) = FlowOn(shops[i], T)

====
